---------------------------- MODULE Spec2Model ----------------------------
(***************************************************************************)
(* A model of cursely.py: the Window / Desktop classes, the colour-pair   *)
(* table built by Desktop._init_curses, the geometry computed by          *)
(* Desktop.add_win, the redraw pass Desktop._on_redraw, the main loop     *)
(* Desktop._mainloop and the session started by run().                    *)
(*                                                                         *)
(* User hooks (on_init, on_redraw, on_key, on_click of a subclass) are    *)
(* the environment: each invocation draws an outcome (returns, raises     *)
(* curses.error, raises another exception) and an effect on the active    *)
(* flag of one attached child.                                             *)
(***************************************************************************)
EXTENDS Integers, Sequences, FiniteSets, TLC

VARIABLES
    pc,          \* position of the single thread of control
    term,        \* terminal mode: [screen, echo, cbreak, keypad]
    exc,         \* the exception being propagated, "none" when there is none
    clrs,        \* the named-colour table iterated by _init_curses
    COLOR_PAIRS, \* curses.COLOR_PAIRS, the driver's pair budget
    ctr,         \* _init_curses: next pair number
    pidx,        \* _init_curses: position in the double loop over the table
    PAIRS,       \* the module-level dict PAIRS: (fg, bg) -> handle
    maxyx,       \* stdscr.getmaxyx(): <<H, W>>
    cfg,         \* class attributes: quit_on_q, has_shadows, has_border, win_border
    z_top,       \* Window._z_top
    windows,     \* Desktop._windows
    arg,         \* add_win: the window being attached and the subwin call
    loop,        \* _mainloop: the local variable loop
    getch,       \* _mainloop: the event polled in this tick
    widx,        \* index of the child a for-loop is about to visit
    calls,       \* handler invocations of the current dispatch step
    passLog,     \* the driver and hook calls of the current redraw pass
    tick,        \* per-tick counters: redraw passes, polls, dispatches
    warn,        \* the latched warnings _on_*_warn of each widget
    hooklog      \* the invocations of default hooks, with what each logged

vars == <<pc, term, exc, clrs, COLOR_PAIRS, ctr, pidx, PAIRS, maxyx,
          cfg, z_top, windows, arg, loop, getch, widx, calls,
          passLog, tick, warn, hooklog>>

-----------------------------------------------------------------------------
(* Bounds of the model *)

\* how many windows assemble() attaches at most
MaxWindows == 2
\* the largest origin coordinate a window is constructed with
MaxCoord == 3
\* the largest size a window is constructed with
MaxSize == 2
\* the largest parent height or width of the geometry specification
MaxDim == 3
\* the largest colour table of the registration specification
MaxColors == 4
\* the largest pair budget of the registration specification
MaxBudget == 8
\* how many default hooks are invoked at most in the hook specification
MaxCalls == 3

-----------------------------------------------------------------------------
(* Program constants *)

\* CLRS, in the dict's insertion order (the order "for fg in CLRS" visits)
CLRS == << "default", "dgray", "red", "green", "cyan", "black", "blue",
           "indigo", "brown", "violet", "orange", "yellow", "cream",
           "white", "gray", "lgray" >>

\* the budgets of the terminals the session specification runs on
\* (8-colour terminals report 64 pairs, 256-colour ones 256)
PairBudgets == {8, 64, 256}

\* the screen of the session specification, <<lines, columns>>
Screens == { <<3, 2>> }

\* curses.error is the bounds failure; Exception stands for any other one
HookOutcomes == {"ok", "curses.error", "Exception"}

-----------------------------------------------------------------------------
(* Colour-pair registration: Desktop._init_curses, lines 310-316 *)

EmptyPairs == << >>

\* the guard of the loop body: a pair is registered while the budget lasts
\* and only when the two names differ
PairGuard_NoBudget(c, fg, bg, budget) == fg /= bg

PairGuard_NoDistinct(c, fg, bg, budget) == c <= budget - 1

PairGuard_OffByOne(c, fg, bg, budget) == c <= budget /\ fg /= bg

PairGuard(c, fg, bg, budget) == c <= budget - 1 /\ fg /= bg

\* curses.color_pair(n): the attribute value of pair number n, n shifted by
\* eight bits under the eight-bit colour mask
color_pair(n) == (n % 256) * 256

\* PAIRS[(fg,bg)] = curses.color_pair(ctr): a dict assignment
SetPair(P, fg, bg, c) == (<<fg, bg>> :> color_pair(c)) @@ P

\* one iteration of the inner loop, on the record [ctr, PAIRS]
PairStep(st, fg, bg, budget) ==
    IF PairGuard(st.ctr, fg, bg, budget)
    THEN [ctr   |-> st.ctr + 1,
          PAIRS |-> SetPair(st.PAIRS, fg, bg, st.ctr)]
    ELSE st

\* the k-th (0-based) iteration of "for fg in table: for bg in table"
FgAt(table, k) == table[(k \div Len(table)) + 1]

BgAt(table, k) == table[(k % Len(table)) + 1]

\* iterations lo .. hi-1 of the double loop, in order (split in halves to
\* keep the evaluation shallow)
RECURSIVE RegisterRange(_, _, _, _, _)
RegisterRange(st, table, lo, hi, budget) ==
    IF lo >= hi THEN st
    ELSE IF hi = lo + 1
    THEN PairStep(st, FgAt(table, lo), BgAt(table, lo), budget)
    ELSE LET mid  == (lo + hi) \div 2
             left == RegisterRange(st, table, lo, mid, budget)
         IN  IF left.ctr >= 1
             THEN RegisterRange(left, table, mid, hi, budget)
             ELSE left

\* the whole double loop, from ctr = 1
RegisterAll(P, table, budget) ==
    RegisterRange([ctr |-> 1, PAIRS |-> P], table, 0,
                  Len(table) * Len(table), budget)

\* the key (fg, bg) is in the dict
HasPair(P, fg, bg) == <<fg, bg>> \in DOMAIN P

\* PAIRS[(fg, bg)]: the value stored under the key, KeyError when the key is
\* absent
Lookup_Default(P, fg, bg) ==
    IF HasPair(P, fg, bg)
    THEN [outcome |-> "ok", handle |-> P[<<fg, bg>>]]
    ELSE [outcome |-> "ok", handle |-> 0]

Lookup(P, fg, bg) ==
    IF HasPair(P, fg, bg)
    THEN [outcome |-> "ok", handle |-> P[<<fg, bg>>]]
    ELSE [outcome |-> "KeyError"]

-----------------------------------------------------------------------------
(* Window.__init__, lines 165-176, and the geometry of add_win, 416-419 *)

Min(a, b) == IF a < b THEN a ELSE b

\* ysize / xsize below 1 are replaced by 1
ClampSize(s) == IF s < 1 THEN 1 ELSE s

\* Desktop._ymax / _xmax: the live size of the root window when active
Geometry(w, H, W) ==
    [y     |-> Min(w.y, H),
     x     |-> Min(w.x, W),
     ysize |-> Min(w.ysize, H - w.y),
     xsize |-> Min(w.xsize, W - w.x)]

\* curses subwin: a size of 0 stands for "to the parent's edge"
SubwinLines(g, H) == IF g.ysize = 0 THEN H - g.y ELSE g.ysize

SubwinCols(g, W) == IF g.xsize = 0 THEN W - g.x ELSE g.xsize

\* curses subwin fails (curses.error) when an argument is negative, when the
\* rectangle is not inside the parent or when it is empty
SubwinOk(g, H, W) ==
    /\ g.y >= 0 /\ g.x >= 0
    /\ g.ysize >= 0 /\ g.xsize >= 0
    /\ g.y + g.ysize <= H
    /\ g.x + g.xsize <= W
    /\ SubwinLines(g, H) >= 1
    /\ SubwinCols(g, W) >= 1

\* a Window as its constructor leaves it: scr None, active True, sizes clamped.
\* id is the identity of the object (0 until it is first attached): the
\* entries of Desktop._windows are references, and two entries with one id
\* are one object; ord is the position of the entry in the list
NewWindow(y, x, ysize, xsize, fg, bg, border) ==
    [y |-> y, x |-> x, ysize |-> ClampSize(ysize), xsize |-> ClampSize(xsize),
     fg |-> fg, bg |-> bg, has_border |-> border,
     scr |-> FALSE, rh |-> 0, rw |-> 0,
     active |-> TRUE, z |-> 0, inited |-> FALSE, ord |-> 0, id |-> 0]

\* the windows the geometry specification attaches
GeomWindows ==
    { NewWindow(y, x, ys, xs, "dgray", "cream", FALSE) :
        y \in 0..MaxCoord, x \in 0..MaxCoord,
        ys \in 0..MaxSize, xs \in 0..MaxSize }

\* the origins and colours of the windows the session attaches: rows 0 and 1
\* overlap, row 3 is the parent's bottom edge, (red, red) is an unregistered pair
SessionYs == {0, 1, 3}

SessionColors == { <<"dgray", "cream">>, <<"red", "red">> }

\* b is has_border of the session's Window subclass
SessionWindows(b) ==
    { NewWindow(y, 0, 2, 1, c[1], c[2], b) :
        y \in SessionYs, c \in SessionColors }

-----------------------------------------------------------------------------
(* The session: run(), curses.wrapper, Desktop.__init__ *)

\* the terminal as the shell leaves it, and as curses.wrapper sets it up
\* (initscr, noecho, cbreak, keypad(1))
ShellMode == [screen |-> FALSE, echo |-> TRUE, cbreak |-> FALSE, keypad |-> FALSE]

CursesMode == [screen |-> TRUE, echo |-> FALSE, cbreak |-> TRUE, keypad |-> TRUE]

NoEvent == [kind |-> "none", my |-> 0, mx |-> 0, ch |-> ""]

NoCalls == [desk_click |-> 0, desk_key |-> 0, child |-> << >>, seen |-> << >>,
            reinit |-> << >>]

NoTick == [passes |-> 0, polls |-> 0, events |-> 0]

NoArg == [win |-> NewWindow(0, 0, 1, 1, "dgray", "cream", FALSE),
          geom |-> [y |-> 0, x |-> 0, ysize |-> 0, xsize |-> 0],
          subwin |-> "none"]

\* the class attributes a session runs under: Desktop.quit_on_q, has_shadows
\* and has_border of the Desktop subclass, has_border of the Window subclass.
\* The first record is the source's defaults.
Config(q, s, b, wb) ==
    [quit_on_q |-> q, has_shadows |-> s, has_border |-> b, win_border |-> wb]

Configs ==
    { Config(TRUE, FALSE, FALSE, FALSE),
      Config(FALSE, TRUE, TRUE, TRUE),
      Config(TRUE, TRUE, FALSE, FALSE),
      Config(FALSE, FALSE, TRUE, FALSE),
      Config(TRUE, FALSE, FALSE, TRUE) }

\* an exception leaves every frame up to curses.wrapper's finally clause
Raise(e) == pc' = "finally" /\ exc' = e

\* what a hook does to the children besides returning or raising: nothing,
\* or an assignment to the active flag of one child
Effects(ws) == {<<0, TRUE>>} \cup ((1..Len(ws)) \X BOOLEAN)

\* the entries that refer to the same object as entry k: an assignment to a
\* field of that object shows in every one of them
SameObject(ws, k) == { j \in DOMAIN ws : ws[j].id = ws[k].id }

ApplyEffect(ws, e) ==
    IF e[1] = 0 THEN ws
    ELSE [j \in DOMAIN ws |->
             IF j \in SameObject(ws, e[1])
             THEN [ws[j] EXCEPT !.active = e[2]]
             ELSE ws[j]]

\* the hooks a Window has a default for, and the widgets of the hook
\* specification: the Desktop (0) and one child (1)
Hooks == {"on_click", "on_init", "on_key", "on_redraw"}

Widgets == {0, 1}

\* Window.__init__, lines 184-187: the four latches of a widget, all False
NoWarn == [w \in Widgets |-> [h \in Hooks |-> FALSE]]

\* the body of a default hook on the latches of one widget: the warning is
\* logged and the hook's latch set when the latch is not set yet
DefaultHook_NoLatch(latches, h) ==
    [warn |-> latches, logged |-> ~latches[h]]

DefaultHook_OneLatch(latches, h) ==
    IF \A g \in Hooks : ~latches[g]
    THEN [warn |-> [g \in Hooks |-> TRUE], logged |-> TRUE]
    ELSE [warn |-> latches, logged |-> FALSE]

DefaultHook(latches, h) ==
    IF ~latches[h]
    THEN [warn |-> [latches EXCEPT ![h] = TRUE], logged |-> TRUE]
    ELSE [warn |-> latches, logged |-> FALSE]

Init ==
    /\ pc = "start"
    /\ term = ShellMode
    /\ exc = "none"
    /\ clrs = CLRS
    /\ COLOR_PAIRS \in PairBudgets
    /\ ctr = 1
    /\ pidx = 0
    /\ PAIRS = EmptyPairs
    /\ maxyx \in Screens
    /\ cfg \in Configs
    /\ z_top = 0
    /\ windows = << >>
    /\ arg = NoArg
    /\ loop = FALSE
    /\ getch = NoEvent
    /\ widx = 0
    /\ calls = NoCalls
    /\ passLog = << >>
    /\ tick = NoTick
    /\ warn = NoWarn
    /\ hooklog = << >>

\* run(): curses.wrapper(GUI) sets the terminal up, then calls GUI(stdscr)
wrapper_enter ==
    /\ pc = "start"
    /\ term' = CursesMode
    /\ pc' = "init_curses"
    /\ UNCHANGED <<exc, clrs, COLOR_PAIRS, ctr, pidx, PAIRS, maxyx,
                   cfg, z_top, windows, arg, loop, getch, widx, calls, passLog,
                   tick>>
    /\ UNCHANGED <<warn, hooklog>>

\* Desktop.__init__ up to _init_curses: the pair table, then noecho, cbreak
Desktop_init_curses ==
    /\ pc = "init_curses"
    /\ LET r == RegisterAll(PAIRS, clrs, COLOR_PAIRS) IN
         /\ ctr' = r.ctr
         /\ PAIRS' = r.PAIRS
         /\ pidx' = Len(clrs) * Len(clrs)
    /\ term' = [term EXCEPT !.echo = FALSE, !.cbreak = TRUE]
    /\ pc' = "on_init"
    /\ UNCHANGED <<exc, clrs, COLOR_PAIRS, maxyx, cfg, z_top, windows, arg,
                   loop, getch, widx, calls, passLog, tick>>
    /\ UNCHANGED <<warn, hooklog>>

\* _init_io, then Window._on_init on the Desktop (fg='white', bg='dgray'),
\* then scr.refresh(): the pair lookup and the on_init hook may raise
Desktop_on_init ==
    /\ pc = "on_init"
    /\ \E o \in HookOutcomes :
         IF Lookup(PAIRS, "white", "dgray").outcome /= "ok"
         THEN Raise("KeyError")
         ELSE IF o /= "ok" THEN Raise(o)
         ELSE pc' = "assemble" /\ exc' = exc
    /\ term' = [term EXCEPT !.keypad = TRUE]
    /\ UNCHANGED <<clrs, COLOR_PAIRS, ctr, pidx, PAIRS, maxyx,
                   cfg, z_top, windows, arg, loop, getch, widx, calls, passLog,
                   tick>>
    /\ UNCHANGED <<warn, hooklog>>

\* the window add_win leaves behind when every step succeeds, as the new
\* entry n of the list shows it
Attached_NoInit(w, g, H, W, z, n) ==
    [w EXCEPT !.scr = TRUE, !.rh = SubwinLines(g, H), !.rw = SubwinCols(g, W),
              !.z = z, !.ord = n,
              !.id = IF w.id = 0 THEN n ELSE w.id]

Attached(w, g, H, W, z, n) ==
    [w EXCEPT !.scr = TRUE, !.rh = SubwinLines(g, H), !.rw = SubwinCols(g, W),
              !.inited = TRUE, !.z = z, !.ord = n,
              !.id = IF w.id = 0 THEN n ELSE w.id]

\* the entries that already refer to the window add_win was given show the
\* new surface and the new z index as well
Reattached(ws, w, g, H, W, z) ==
    [j \in DOMAIN ws |->
        IF w.id /= 0 /\ ws[j].id = w.id
        THEN [ws[j] EXCEPT !.scr = TRUE, !.rh = SubwinLines(g, H),
                           !.rw = SubwinCols(g, W), !.inited = TRUE, !.z = z]
        ELSE ws[j]]

\* the active flag of the window after its on_init hook: the hook's effect
\* reaches it when it is already in the list
ActiveAfter(ws, w) ==
    IF \E j \in DOMAIN ws : w.id /= 0 /\ ws[j].id = w.id
    THEN LET j == CHOOSE i \in DOMAIN ws : ws[i].id = w.id IN ws[j].active
    ELSE w.active

\* where add_win puts the window in Desktop._windows
Attach_Front(ws, w) == <<w>> \o ws

Attach(ws, w) == Append(ws, w)

\* the test of line 421: only an active window is attached
Attaches_Always(w) == TRUE

Attaches(w) == w.active

\* Desktop.add_win(window): o is the outcome of the window's on_init hook,
\* e what that hook does to the children attached before
add_win(w, o, e) ==
    LET H == maxyx[1]
        W == maxyx[2]
        g == Geometry(w, H, W)
    IN  IF ~Attaches(w)
        THEN /\ arg' = [win |-> w, geom |-> g, subwin |-> "none"]
             /\ UNCHANGED <<pc, exc, z_top, windows>>
        ELSE IF ~SubwinOk(g, H, W)
        THEN /\ arg' = [win |-> w, geom |-> g, subwin |-> "error"]
             /\ Raise("curses.error")
             /\ UNCHANGED <<z_top, windows>>
        ELSE /\ arg' = [win |-> w, geom |-> g, subwin |-> "ok"]
             /\ IF Lookup(PAIRS, w.fg, w.bg).outcome /= "ok"
                THEN Raise("KeyError") /\ UNCHANGED <<z_top, windows>>
                ELSE IF o /= "ok"
                THEN Raise(o) /\ UNCHANGED <<z_top, windows>>
                ELSE /\ z_top' = z_top + 1
                     /\ LET ws == Reattached(ApplyEffect(windows, e), w, g,
                                             H, W, z_top + 1)
                            a  == ActiveAfter(ws, w)
                        IN  windows' = Attach(ws,
                                Attached([w EXCEPT !.active = a], g, H, W,
                                         z_top + 1, Len(windows) + 1))
                     /\ UNCHANGED <<pc, exc>>

\* the windows assemble() may hand to add_win: a new one, active or
\* deactivated, or one that is in the list already
Candidates(ws, b) ==
    { [w EXCEPT !.active = a] : w \in SessionWindows(b), a \in BOOLEAN }
        \cup { ws[k] : k \in DOMAIN ws }

\* assemble(): a subclass attaches its windows
assemble_add_win ==
    /\ pc = "assemble"
    /\ Len(windows) < MaxWindows
    /\ \E w \in Candidates(windows, cfg.win_border),
          o \in HookOutcomes, e \in Effects(windows) :
         add_win(w, o, e)
    /\ UNCHANGED <<term, clrs, COLOR_PAIRS, ctr, pidx, PAIRS,
                   maxyx, cfg, loop, getch, widx, calls, passLog, tick>>
    /\ UNCHANGED <<warn, hooklog>>

\* assemble() returns (add_win's locals are gone) and Desktop.__init__
\* enters _mainloop: loop = True
assemble_done ==
    /\ pc = "assemble"
    /\ loop' = TRUE
    /\ arg' = NoArg
    /\ pc' = "redraw"
    /\ UNCHANGED <<term, exc, clrs, COLOR_PAIRS, ctr, pidx, PAIRS,
                   maxyx, cfg, z_top, windows, getch, widx, calls, passLog,
                   tick>>
    /\ UNCHANGED <<warn, hooklog>>

-----------------------------------------------------------------------------
(* The redraw pass: Desktop._on_redraw, lines 348-363 *)

\* a call on the Desktop (0) or on the child attached as number n
Log(op, n) == <<op, n>>

\* Window._on_redraw: the try/except around the hook turns curses.error into
\* a logged error; any other exception leaves the method
Window_on_redraw_NoTry(o) == o

Window_on_redraw(o) == IF o = "curses.error" THEN "logged" ELSE o

\* Window._ymax / _xmax: 0 when inactive, scr.getmaxyx() otherwise
Ymax(w) == IF w.active THEN w.rh ELSE 0

Xmax(w) == IF w.active THEN w.rw ELSE 0

\* Desktop._draw_shadow(window): "ok", or the exception it raises.
\* window._ymax reads window.scr when the window is active; the pair lookup
\* precedes hline; hline and vline move the cursor of the root window first,
\* which fails outside it
draw_shadow(w, P, H, W) ==
    IF w.active /\ ~w.scr THEN "AttributeError"
    ELSE IF Lookup(P, "white", "black").outcome /= "ok" THEN "KeyError"
    ELSE IF w.y + Ymax(w) >= H \/ w.x + 1 >= W THEN "curses.error"
    ELSE IF w.y + 1 >= H \/ w.x + Xmax(w) >= W THEN "curses.error"
    ELSE "ok"

\* lines 349-352: the calls on the Desktop itself, in order
RootSteps_QueueFirst(has_border) ==
    <<Log("redraw", 0), Log("queue", 0)>>
        \o (IF has_border THEN <<Log("border", 0)>> ELSE << >>)

RootSteps(has_border) ==
    <<Log("redraw", 0)>>
        \o (IF has_border THEN <<Log("border", 0)>> ELSE << >>)
        \o <<Log("queue", 0)>>

\* own hook, root border, root noutrefresh; the Desktop's own redraw hook is
\* called outside any try
redraw_root ==
    /\ pc = "redraw"
    /\ \E o \in HookOutcomes, e \in Effects(windows) :
         /\ windows' = ApplyEffect(windows, e)
         /\ IF o /= "ok"
            THEN /\ Raise(o)
                 /\ passLog' = <<Log("redraw", 0)>>
                 /\ UNCHANGED widx
            ELSE /\ passLog' = RootSteps(cfg.has_border)
                 /\ widx' = 1
                 /\ pc' = "redraw_child"
                 /\ exc' = exc
    /\ tick' = [tick EXCEPT !.passes = @ + 1]
    /\ UNCHANGED <<term, clrs, COLOR_PAIRS, ctr, pidx, PAIRS,
                   maxyx, cfg, z_top, arg, loop, getch, calls>>
    /\ UNCHANGED <<warn, hooklog>>

\* the child the for-loop visits after child i
NextChild_Skip(i) == i + 2

NextChild(i) == i + 1

\* what the loop body does to an inactive child
Release_Keep(w) == w

Release(w) == [w EXCEPT !.scr = FALSE]

\* one iteration of "for window in self._windows" for an active child:
\* its redraw hook, the shadow, its border, its noutrefresh
redraw_active ==
    /\ pc = "redraw_child"
    /\ widx <= Len(windows)
    /\ windows[widx].active
    /\ \E o \in HookOutcomes, e \in Effects(windows) :
         LET ws == ApplyEffect(windows, e)
             w  == ws[widx]
             r  == Window_on_redraw(o)
             l1 == passLog \o <<Log("redraw", w.ord)>>
                     \o (IF r = "logged" THEN <<Log("log_error", w.ord)>> ELSE << >>)
             sh == IF cfg.has_shadows
                   THEN draw_shadow(w, PAIRS, maxyx[1], maxyx[2]) ELSE "ok"
             l2 == l1 \o (IF cfg.has_shadows THEN <<Log("shadow", w.ord)>> ELSE << >>)
             l3 == l2 \o (IF w.has_border THEN <<Log("border", w.ord)>> ELSE << >>)
         IN  /\ windows' = ws
             /\ IF r \notin {"ok", "logged"}
                THEN Raise(r) /\ passLog' = l1 /\ UNCHANGED widx
                ELSE IF sh /= "ok"
                THEN Raise(sh) /\ passLog' = l2 /\ UNCHANGED widx
                ELSE IF ~w.scr
                THEN Raise("AttributeError") /\ passLog' = l2 /\ UNCHANGED widx
                ELSE /\ passLog' = l3 \o <<Log("queue", w.ord)>>
                     /\ widx' = NextChild(widx)
                     /\ UNCHANGED <<pc, exc>>
    /\ UNCHANGED <<term, clrs, COLOR_PAIRS, ctr, pidx, PAIRS,
                   maxyx, cfg, z_top, arg, loop, getch, calls, tick>>
    /\ UNCHANGED <<warn, hooklog>>

\* the same iteration for an inactive child: window.scr = None
redraw_inactive ==
    /\ pc = "redraw_child"
    /\ widx <= Len(windows)
    /\ ~windows[widx].active
    /\ windows' = [j \in DOMAIN windows |->
                       IF j \in SameObject(windows, widx)
                       THEN Release(windows[j])
                       ELSE windows[j]]
    /\ widx' = NextChild(widx)
    /\ UNCHANGED <<pc, term, exc, clrs, COLOR_PAIRS, ctr, pidx, PAIRS, maxyx, cfg, z_top, arg, loop, getch, calls,
                   passLog, tick>>
    /\ UNCHANGED <<warn, hooklog>>

\* curses.doupdate() after the loop
commit ==
    /\ pc = "redraw_child"
    /\ widx > Len(windows)
    /\ passLog' = Append(passLog, Log("commit", 0))
    /\ pc' = "poll"
    /\ UNCHANGED <<term, exc, clrs, COLOR_PAIRS, ctr, pidx, PAIRS,
                   maxyx, cfg, z_top, windows, arg, loop, getch, widx, calls,
                   tick>>
    /\ UNCHANGED <<warn, hooklog>>

-----------------------------------------------------------------------------
(* The main loop: Desktop._mainloop, lines 375-398 *)

Keys == {"q", "Q", "a"}

\* what scr.getch() can return in a tick: -1, KEY_MOUSE (with the position
\* curses.getmouse() gives), or a key
Events ==
    {NoEvent}
    \cup { [kind |-> "mouse", my |-> y, mx |-> x, ch |-> ""] :
             y \in 0..(maxyx[1] - 1), x \in 0..(maxyx[2] - 1) }
    \cup { [kind |-> "key", my |-> 0, mx |-> 0, ch |-> k] : k \in Keys }

\* getch = self.scr.getch(), after the redraw pass of the same tick
poll ==
    /\ pc = "poll"
    /\ \E ev \in Events :
         /\ getch' = ev
         /\ pc' = IF ev.kind = "none" THEN "sleep" ELSE "dispatch"
    /\ calls' = NoCalls
    /\ passLog' = << >>
    /\ tick' = [tick EXCEPT !.polls = @ + 1]
    /\ UNCHANGED <<term, exc, clrs, COLOR_PAIRS, ctr, pidx, PAIRS,
                   maxyx, cfg, z_top, windows, arg, loop, widx>>
    /\ UNCHANGED <<warn, hooklog>>

\* the elif of line 391: chr(getch) in 'qQ' and self.quit_on_q
IsQuit_Always(ch, quit_on_q) == ch \in {"q", "Q"}

IsQuit_LowerOnly(ch, quit_on_q) == ch = "q" /\ quit_on_q

IsQuit(ch, quit_on_q) == ch \in {"q", "Q"} /\ quit_on_q

\* window.scr.enclose(my, mx): the position lies inside the subwindow
Encloses(w, my, mx) ==
    /\ w.y <= my /\ my < w.y + w.rh
    /\ w.x <= mx /\ mx < w.x + w.rw

\* the test of line 389
ClickTarget_Active(w, my, mx) == w.active /\ Encloses(w, my, mx)

ClickTarget_First(w, my, mx) == w.scr /\ Encloses(w, my, mx) /\ w.ord = 1

ClickTarget(w, my, mx) == w.scr /\ Encloses(w, my, mx)

\* Window._move(y, x), lines 225-228: the origin is assigned, then
\* scr.mvwin(y, x) fails on an absent surface (AttributeError) and when the
\* window would leave the screen (curses.error)
Window_move(w, y, x, H, W) ==
    [y   |-> y,
     x   |-> x,
     exc |-> IF ~w.scr THEN "AttributeError"
             ELSE IF y < 0 \/ x < 0 \/ y + w.rh > H \/ x + w.rw > W
             THEN "curses.error"
             ELSE "none"]

\* ghost record of the calls move and reinit_all make on a child that holds
\* no surface
ChildCall(op, w) ==
    IF w.scr THEN << >> ELSE <<[op |-> op, ord |-> w.ord, scr |-> w.scr]>>

\* Window._on_init on one child, with a hook that returns: scr.clear() fails
\* on an absent surface, then the pair lookup
Window_on_init(w, P) ==
    IF ~w.scr THEN "AttributeError"
    ELSE IF Lookup(P, w.fg, w.bg).outcome /= "ok" THEN "KeyError"
    ELSE "none"

\* the loop of reinit_all, lines 371-372, from entry k on
RECURSIVE ReinitFrom(_, _, _)
ReinitFrom(ws, k, P) ==
    IF k > Len(ws) THEN [exc |-> "none", log |-> << >>]
    ELSE LET c == ChildCall("on_init", ws[k])
             r == Window_on_init(ws[k], P)
         IN  IF r /= "none" THEN [exc |-> r, log |-> c]
             ELSE LET rest == ReinitFrom(ws, k + 1, P)
                  IN  [exc |-> rest.exc, log |-> c \o rest.log]

\* Desktop.reinit_all(): the Desktop's own _on_init (oi is the outcome of its
\* on_init hook), then every entry of the list, active or not
reinit_all(ws, P, oi) ==
    IF Lookup(P, "white", "dgray").outcome /= "ok"
    THEN [ws |-> ws, exc |-> "KeyError", log |-> << >>]
    ELSE IF oi /= "ok" THEN [ws |-> ws, exc |-> oi, log |-> << >>]
    ELSE LET r == ReinitFrom(ws, 1, P)
         IN  [ws |-> ws, exc |-> r.exc, log |-> r.log]

\* Desktop.move(scr, y, x), lines 365-367, on the child of entry k
move(ws, k, y, x, H, W, P, oi) ==
    LET m     == Window_move(ws[k], y, x, H, W)
        moved == [j \in DOMAIN ws |->
                     IF j \in SameObject(ws, k)
                     THEN [ws[j] EXCEPT !.y = m.y, !.x = m.x]
                     ELSE ws[j]]
        c     == ChildCall("mvwin", ws[k])
    IN  IF m.exc /= "none"
        THEN [ws |-> moved, exc |-> m.exc, log |-> c]
        ELSE LET r == reinit_all(moved, P, oi)
             IN  [ws |-> r.ws, exc |-> r.exc, log |-> c \o r.log]

\* the origins a click handler moves a child to: two inside the screen, one
\* that leaves it
MoveTargets == { <<0, 0>>, <<1, 0>>, <<2, 0>> }

\* what the Desktop's click handler does: an assignment to a flag (e), or a
\* call (c) of self.reinit_all() or of self.move(child, y, x) as
\* GUI2.on_click does
HandlerCalls(ws) ==
    { <<"reinit_all", 0, 0, 0>> }
        \cup { <<"move", k, t[1], t[2]>> : k \in DOMAIN ws, t \in MoveTargets }

ClickHandlers(ws) ==
    { <<e, <<"none", 0, 0, 0>> >> : e \in Effects(ws) }
        \cup { << <<0, TRUE>>, c >> : c \in HandlerCalls(ws) }

DoCall(ws, c, H, W, P, oi) ==
    IF c[1] = "none" THEN [ws |-> ws, exc |-> "none", log |-> << >>]
    ELSE IF c[1] = "reinit_all" THEN reinit_all(ws, P, oi)
    ELSE move(ws, c[2], c[3], c[4], H, W, P, oi)

\* a mouse event: self._on_click(my, mx, click), outside any try
dispatch_click ==
    /\ pc = "dispatch"
    /\ getch.kind = "mouse"
    /\ \E o \in HookOutcomes, h \in ClickHandlers(windows) :
         LET r == DoCall(ApplyEffect(windows, h[1]), h[2], maxyx[1], maxyx[2],
                         PAIRS, "ok")
         IN  /\ windows' = r.ws
             /\ calls' = [calls EXCEPT !.desk_click = @ + 1,
                                       !.reinit = r.log]
             /\ IF r.exc /= "none"
                THEN Raise(r.exc) /\ UNCHANGED widx
                ELSE IF o /= "ok"
                THEN Raise(o) /\ UNCHANGED widx
                ELSE pc' = "click_child" /\ widx' = 1 /\ exc' = exc
    /\ tick' = [tick EXCEPT !.events = @ + 1]
    /\ UNCHANGED <<term, clrs, COLOR_PAIRS, ctr, pidx, PAIRS,
                   maxyx, cfg, z_top, arg, loop, getch, passLog>>
    /\ UNCHANGED <<warn, hooklog>>

\* one iteration of the for-loop of lines 388-390: calls.seen records, for
\* the child visited, its flags at the moment of the test and whether its
\* click handler was invoked
click_child ==
    /\ pc = "click_child"
    /\ widx <= Len(windows)
    /\ LET w   == windows[widx]
           hit == ClickTarget(w, getch.my, getch.mx)
           rec == [ord |-> w.ord, active |-> w.active, scr |-> w.scr,
                   encloses |-> Encloses(w, getch.my, getch.mx),
                   invoked |-> hit]
       IN  /\ calls' = [calls EXCEPT
                          !.seen = Append(@, rec),
                          !.child = IF hit THEN Append(@, w.ord) ELSE @]
           /\ IF hit
              THEN \E o \in HookOutcomes, e \in Effects(windows) :
                     /\ windows' = ApplyEffect(windows, e)
                     /\ IF o /= "ok"
                        THEN Raise(o) /\ UNCHANGED widx
                        ELSE widx' = NextChild(widx) /\ UNCHANGED <<pc, exc>>
              ELSE /\ widx' = NextChild(widx)
                   /\ UNCHANGED <<pc, exc, windows>>
    /\ UNCHANGED <<term, clrs, COLOR_PAIRS, ctr, pidx, PAIRS,
                   maxyx, cfg, z_top, arg, loop, getch, passLog, tick>>
    /\ UNCHANGED <<warn, hooklog>>

click_done ==
    /\ pc = "click_child"
    /\ widx > Len(windows)
    /\ pc' = "sleep"
    /\ UNCHANGED <<term, exc, clrs, COLOR_PAIRS, ctr, pidx, PAIRS,
                   maxyx, cfg, z_top, windows, arg, loop, getch, widx, calls,
                   passLog, tick>>
    /\ UNCHANGED <<warn, hooklog>>

\* the quit key: loop = False, no handler
dispatch_quit ==
    /\ pc = "dispatch"
    /\ getch.kind = "key"
    /\ IsQuit(getch.ch, cfg.quit_on_q)
    /\ loop' = FALSE
    /\ pc' = "sleep"
    /\ tick' = [tick EXCEPT !.events = @ + 1]
    /\ UNCHANGED <<term, exc, clrs, COLOR_PAIRS, ctr, pidx, PAIRS,
                   maxyx, cfg, z_top, windows, arg, getch, widx, calls,
                   passLog>>
    /\ UNCHANGED <<warn, hooklog>>

\* any other key: self._on_key(getch), outside any try
dispatch_key ==
    /\ pc = "dispatch"
    /\ getch.kind = "key"
    /\ ~IsQuit(getch.ch, cfg.quit_on_q)
    /\ \E o \in HookOutcomes, e \in Effects(windows) :
         /\ windows' = ApplyEffect(windows, e)
         /\ IF o /= "ok"
            THEN Raise(o)
            ELSE pc' = "sleep" /\ exc' = exc
    /\ calls' = [calls EXCEPT !.desk_key = @ + 1]
    /\ tick' = [tick EXCEPT !.events = @ + 1]
    /\ UNCHANGED <<term, clrs, COLOR_PAIRS, ctr, pidx, PAIRS,
                   maxyx, cfg, z_top, arg, loop, getch, widx, passLog>>
    /\ UNCHANGED <<warn, hooklog>>

\* the while test of line 378: where control goes after the sleep
AfterSleep_NoRedraw(l) == IF l THEN "poll" ELSE "finally"

AfterSleep(l) == IF l THEN "redraw" ELSE "finally"

\* curses.napms, then the while test: the next tick, or the return of
\* _mainloop, Desktop.__init__ and GUI(stdscr)
sleep ==
    /\ pc = "sleep"
    /\ pc' = AfterSleep(loop)
    /\ IF loop
       THEN /\ tick' = NoTick
            /\ getch' = NoEvent
            /\ calls' = NoCalls
       ELSE /\ UNCHANGED <<tick, getch, calls>>
    /\ UNCHANGED <<term, exc, clrs, COLOR_PAIRS, ctr, pidx, PAIRS,
                   maxyx, cfg, z_top, windows, arg, loop, widx, passLog>>
    /\ UNCHANGED <<warn, hooklog>>

\* Ctrl-C: KeyboardInterrupt is raised wherever the session is
InSession ==
    pc \in {"init_curses", "on_init", "assemble", "redraw", "redraw_child",
            "poll", "dispatch", "click_child", "sleep"}

interrupt ==
    /\ InSession
    /\ Raise("KeyboardInterrupt")
    /\ UNCHANGED <<term, clrs, COLOR_PAIRS, ctr, pidx, PAIRS,
                   maxyx, cfg, z_top, windows, arg, loop, getch, widx, calls,
                   passLog, tick>>
    /\ UNCHANGED <<warn, hooklog>>

\* the finally clause of curses.wrapper: keypad(0), echo(), nocbreak(),
\* endwin(), whether func returned or raised (e is the exception, or "none")
Restore_OnReturnOnly(t, e) == IF e = "none" THEN ShellMode ELSE t

Restore(t, e) == ShellMode

\* the wrapper's finally clause runs, then control is back in the caller of
\* run(), with the exception if there is one; the locals of the frames that
\* were left (add_win, _on_redraw, _mainloop) are gone
wrapper_finally ==
    /\ pc = "finally"
    /\ term' = Restore(term, exc)
    /\ pc' = "returned"
    /\ arg' = NoArg
    /\ loop' = FALSE
    /\ getch' = NoEvent
    /\ widx' = 0
    /\ calls' = NoCalls
    /\ passLog' = << >>
    /\ tick' = NoTick
    /\ UNCHANGED <<exc, clrs, COLOR_PAIRS, ctr, pidx, PAIRS, maxyx, cfg, z_top,
                   windows>>
    /\ UNCHANGED <<warn, hooklog>>

\* Desktop.__del__, when the object is collected after the session:
\* leaveok(0), scrollok(1), keypad(0), echo(), nocbreak(), endwin()
Desktop_del ==
    /\ pc = "returned"
    /\ term' = ShellMode
    /\ pc' = "deleted"
    /\ UNCHANGED <<exc, clrs, COLOR_PAIRS, ctr, pidx, PAIRS, maxyx,
                   cfg, z_top, windows, arg, loop, getch, widx, calls, passLog,
                   tick>>
    /\ UNCHANGED <<warn, hooklog>>

Next ==
    \/ wrapper_enter
    \/ Desktop_init_curses
    \/ Desktop_on_init
    \/ assemble_add_win
    \/ assemble_done
    \/ redraw_root
    \/ redraw_active
    \/ redraw_inactive
    \/ commit
    \/ poll
    \/ dispatch_click
    \/ click_child
    \/ click_done
    \/ dispatch_quit
    \/ dispatch_key
    \/ sleep
    \/ interrupt
    \/ wrapper_finally
    \/ Desktop_del

Spec == Init /\ [][Next]_vars

-----------------------------------------------------------------------------
(* The registration loop on its own, one iteration per step, for every    *)
(* colour table and pair budget within the bounds                          *)

ColorTables == { SubSeq(CLRS, 1, n) : n \in 0..MaxColors }

InitPairs ==
    /\ pc = "pairs"
    /\ term = CursesMode
    /\ exc = "none"
    /\ clrs \in ColorTables
    /\ COLOR_PAIRS \in 1..MaxBudget
    /\ ctr = 1
    /\ pidx = 0
    /\ PAIRS = EmptyPairs
    /\ maxyx \in Screens
    /\ cfg = Config(TRUE, FALSE, FALSE, FALSE)
    /\ z_top = 0
    /\ windows = << >>
    /\ arg = NoArg
    /\ loop = FALSE
    /\ getch = NoEvent
    /\ widx = 0
    /\ calls = NoCalls
    /\ passLog = << >>
    /\ tick = NoTick
    /\ warn = NoWarn
    /\ hooklog = << >>

\* the body of "for fg in CLRS: for bg in CLRS", lines 313-316
init_pair_step ==
    /\ pc = "pairs"
    /\ pidx < Len(clrs) * Len(clrs)
    /\ LET r == PairStep([ctr |-> ctr, PAIRS |-> PAIRS],
                         FgAt(clrs, pidx), BgAt(clrs, pidx), COLOR_PAIRS)
       IN  ctr' = r.ctr /\ PAIRS' = r.PAIRS
    /\ pidx' = pidx + 1
    /\ UNCHANGED <<pc, term, exc, clrs, COLOR_PAIRS, maxyx, cfg, z_top,
                   windows, arg, loop, getch, widx, calls, passLog, tick>>
    /\ UNCHANGED <<warn, hooklog>>

SpecPairs == InitPairs /\ [][init_pair_step]_vars

-----------------------------------------------------------------------------
(* add_win on its own: one window attached to a Desktop of every size     *)
(* within the bounds, on a 256-pair terminal                               *)

InitGeom ==
    /\ pc = "assemble"
    /\ term = CursesMode
    /\ exc = "none"
    /\ clrs = CLRS
    /\ COLOR_PAIRS = 256
    /\ ctr = RegisterAll(EmptyPairs, CLRS, 256).ctr
    /\ pidx = Len(CLRS) * Len(CLRS)
    /\ PAIRS = RegisterAll(EmptyPairs, CLRS, 256).PAIRS
    /\ maxyx \in (1..MaxDim) \X (1..MaxDim)
    /\ cfg = Config(TRUE, FALSE, FALSE, FALSE)
    /\ z_top = 0
    /\ windows = << >>
    /\ arg = NoArg
    /\ loop = FALSE
    /\ getch = NoEvent
    /\ widx = 0
    /\ calls = NoCalls
    /\ passLog = << >>
    /\ tick = NoTick
    /\ warn = NoWarn
    /\ hooklog = << >>

geom_add_win ==
    /\ pc = "assemble"
    /\ arg = NoArg
    /\ \E w \in GeomWindows : add_win(w, "ok", <<0, TRUE>>)
    /\ UNCHANGED <<term, clrs, COLOR_PAIRS, ctr, pidx, PAIRS, maxyx, cfg,
                   loop, getch, widx, calls, passLog, tick>>
    /\ UNCHANGED <<warn, hooklog>>

SpecGeom == InitGeom /\ [][geom_add_win]_vars

-----------------------------------------------------------------------------
(* The default hooks on their own: a Desktop and one attached child, none *)
(* of whose hooks is overridden, and any sequence of hook invocations     *)

HookChild ==
    LET w == NewWindow(0, 0, 2, 1, "dgray", "cream", FALSE)
    IN  Attached(w, Geometry(w, 3, 2), 3, 2, 1, 1)

InitHooks ==
    /\ pc = "hooks"
    /\ term = CursesMode
    /\ exc = "none"
    /\ clrs = CLRS
    /\ COLOR_PAIRS = 256
    /\ ctr = RegisterAll(EmptyPairs, CLRS, 256).ctr
    /\ pidx = Len(CLRS) * Len(CLRS)
    /\ PAIRS = RegisterAll(EmptyPairs, CLRS, 256).PAIRS
    /\ maxyx = <<3, 2>>
    /\ cfg = Config(TRUE, FALSE, FALSE, FALSE)
    /\ z_top = 1
    /\ windows = <<HookChild>>
    /\ arg = NoArg
    /\ loop = TRUE
    /\ getch = NoEvent
    /\ widx = 0
    /\ calls = NoCalls
    /\ passLog = << >>
    /\ tick = NoTick
    /\ warn = NoWarn
    /\ hooklog = << >>

\* one invocation of the default hook h of widget w
default_hook ==
    /\ pc = "hooks"
    /\ Len(hooklog) < MaxCalls
    /\ \E w \in Widgets, h \in Hooks :
         LET r == DefaultHook(warn[w], h)
         IN  /\ warn' = [warn EXCEPT ![w] = r.warn]
             /\ hooklog' = Append(hooklog,
                    [widget |-> w, hook |-> h, logged |-> r.logged])
    /\ UNCHANGED <<pc, term, exc, clrs, COLOR_PAIRS, ctr, pidx, PAIRS, maxyx,
                   cfg, z_top, windows, arg, loop, getch, widx, calls,
                   passLog, tick>>

SpecHooks == InitHooks /\ [][default_hook]_vars

-----------------------------------------------------------------------------
(* Claims *)

InLog(op, n) == \E k \in 1..Len(passLog) : passLog[k] = Log(op, n)

HasEntries(n) == \E k \in 1..Len(passLog) : passLog[k][2] = n

QuitKeys == {"q", "Q"}

\* C1: for every window with origin y >= 0, x >= 0 and every parent size
\* (H, W), the geometry add_win passes to subwin satisfies ry + rh <= H,
\* rx + rw <= W, rh >= 1 and rw >= 1.
C1_GeometryInsideParent ==
    (arg.subwin /= "none" /\ arg.win.y >= 0 /\ arg.win.x >= 0) =>
        /\ arg.geom.y + arg.geom.ysize <= maxyx[1]
        /\ arg.geom.x + arg.geom.xsize <= maxyx[2]
        /\ arg.geom.ysize >= 1
        /\ arg.geom.xsize >= 1

\* C2: for every mouse event the Desktop's click handler is invoked exactly
\* once, and a child's click handler is invoked if and only if the child is
\* active at the moment of dispatch and its region encloses the click.
C2_ClickDelivery ==
    /\ (getch.kind = "mouse" /\ pc \in {"click_child", "sleep"}) =>
           calls.desk_click = 1
    /\ \A k \in 1..Len(calls.seen) :
           calls.seen[k].invoked <=>
               (calls.seen[k].active /\ calls.seen[k].encloses)

\* C3: when the redraw pass reaches a child whose active flag is cleared, it
\* invokes no redraw hook and draws and queues nothing for it, it sets the
\* child's surface handle to absent, and the child list keeps its length and
\* every child its position.
C3_InactiveChildReleased ==
    [][ (pc = "redraw_child" /\ widx <= Len(windows)
            /\ ~windows[widx].active /\ exc' = exc)
        => /\ passLog' = passLog
           /\ ~windows'[widx].scr
           /\ Len(windows') = Len(windows)
           /\ \A j \in 1..Len(windows) : windows'[j].ord = windows[j].ord
           /\ pc' = "redraw_child" /\ widx' = widx + 1 ]_vars

C3_Witness ==
    /\ pc = "redraw_child" /\ widx = 2 /\ Len(windows) = 2
    /\ ~windows[1].active /\ ~windows[1].scr /\ windows[1].inited
    /\ ~HasEntries(1)
    /\ InLog("queue", 0)

\* C4: when the main loop polls 'q' or 'Q': with quit_on_q enabled the loop
\* ends at the end of that tick, with no further redraw pass and no key or
\* click handler invoked for the event; with quit_on_q disabled the loop
\* flag stays set and the Desktop's key handler is invoked exactly once.
C4_QuitKey ==
    /\ (pc = "sleep" /\ getch.kind = "key" /\ getch.ch \in QuitKeys) =>
           IF cfg.quit_on_q
           THEN /\ ~loop
                /\ calls = NoCalls
                /\ tick.passes = 1
           ELSE /\ loop
                /\ calls.desk_key = 1
                /\ calls.desk_click = 0 /\ calls.child = << >>
    /\ pc \in {"redraw", "redraw_child", "poll", "dispatch", "click_child"}
           => loop
    /\ (pc = "finally" /\ exc = "none") =>
           /\ getch.kind = "key" /\ getch.ch \in QuitKeys /\ cfg.quit_on_q
           /\ calls = NoCalls
           /\ tick.passes = 1
    /\ (pc = "finally" /\ exc \in {"curses.error", "Exception"}
            /\ getch.kind = "key" /\ getch.ch \in QuitKeys) =>
           /\ ~cfg.quit_on_q
           /\ loop
           /\ calls.desk_key = 1

C4_Witness ==
    /\ pc = "finally" /\ exc = "none"
    /\ getch.ch = "Q" /\ cfg.quit_on_q /\ ~loop
    /\ Len(windows) = 2

\* C5: whenever control is back in the caller of run(), after the quit key,
\* an uncaught error or a keyboard interrupt, the terminal is in the mode it
\* had before the session (echo on, cbreak off, keypad off, curses screen
\* ended).
C5_TerminalRestored ==
    pc \in {"returned", "deleted"} => term = ShellMode

C5_Witness ==
    pc = "returned" /\ exc = "KeyboardInterrupt" /\ Len(windows) >= 1

\* C6: a curses.error raised inside the click hook or the key hook of a
\* widget does not terminate the main loop.
C6_HandlerFailureContained ==
    ~( /\ pc = "finally"
       /\ exc = "curses.error"
       /\ (calls.desk_click > 0 \/ calls.desk_key > 0) )

\* C7: a curses.error raised by the redraw hook of an active child is caught
\* and logged right after that hook: it never leaves the redraw pass, and a
\* pass that ends has visited every child (queued it, or released it) and
\* committed the frame before the poll.
C7_RedrawFailureContained ==
    /\ ~( /\ pc = "finally" /\ exc = "curses.error" /\ passLog /= << >>
          /\ passLog[Len(passLog)][1] = "redraw"
          /\ passLog[Len(passLog)][2] >= 1 )
    /\ \A k \in 1..Len(passLog) :
           passLog[k][1] = "log_error" =>
               k > 1 /\ passLog[k - 1] = Log("redraw", passLog[k][2])
    /\ pc = "poll" =>
           /\ passLog[Len(passLog)] = Log("commit", 0)
           /\ \A j \in 1..Len(windows) :
                  InLog("queue", windows[j].ord) \/ ~windows[j].scr

C7_Witness ==
    /\ pc = "poll"
    /\ Len(windows) = 2
    /\ InLog("log_error", 1)
    /\ InLog("queue", 1)
    /\ InLog("redraw", 2)
    /\ InLog("queue", 2)
    /\ InLog("commit", 0)

\* C8: during and after the registration loop no pair with fg = bg is
\* registered, every registered pair was registered exactly once (as many
\* pairs as init_pair calls, no handle shared), never more than
\* COLOR_PAIRS - 1 pairs are registered, and when the loop ends the pairs
\* beyond the budget have been skipped without an error.
C8_PairRegistration ==
    /\ \A p \in DOMAIN PAIRS : p[1] /= p[2]
    /\ Cardinality(DOMAIN PAIRS) = ctr - 1
    /\ \A p, q \in DOMAIN PAIRS : PAIRS[p] = PAIRS[q] => p = q
    /\ Cardinality(DOMAIN PAIRS) <= COLOR_PAIRS - 1
    /\ exc = "none"
    /\ pidx = Len(clrs) * Len(clrs) =>
           Cardinality(DOMAIN PAIRS) =
               Min(COLOR_PAIRS - 1, Len(clrs) * (Len(clrs) - 1))

C8_Witness ==
    /\ pidx = Len(clrs) * Len(clrs)
    /\ Len(clrs) * (Len(clrs) - 1) > COLOR_PAIRS - 1
    /\ Cardinality(DOMAIN PAIRS) = COLOR_PAIRS - 1
    /\ COLOR_PAIRS > 1

\* C9: the children are visited by a redraw pass in attach order: the k-th
\* entry of the child list is the k-th window attached, the calls of a pass
\* on the children are grouped by child in attach order, and when the pass
\* invokes B's redraw hook every child attached before B has been queued or
\* was skipped as inactive.
C9_AttachOrderIsRedrawOrder ==
    /\ \A i \in 1..Len(windows) : windows[i].ord = i
    /\ \A k, l \in 1..Len(passLog) :
           (k < l /\ passLog[k][2] >= 1 /\ passLog[l][2] >= 1) =>
               passLog[k][2] <= passLog[l][2]
    /\ \A l \in 1..Len(passLog) :
           (passLog[l][1] = "redraw" /\ passLog[l][2] >= 1) =>
               \A a \in 1..(passLog[l][2] - 1) :
                   \/ ~HasEntries(a)
                   \/ \E k \in 1..(l - 1) : passLog[k] = Log("queue", a)

C9_Witness ==
    /\ pc = "poll"
    /\ Len(windows) = 2
    /\ windows[1].z < windows[2].z
    /\ InLog("shadow", 1) /\ InLog("border", 1) /\ InLog("queue", 1)
    /\ InLog("shadow", 2) /\ InLog("queue", 2)

\* C10: for every polled key that is not consumed as the quit key, the
\* Desktop's key handler is invoked exactly once and no hook of a child is
\* invoked in that dispatch step.
C10_KeyToDesktopOnly ==
    /\ ( /\ getch.kind = "key"
         /\ ~(getch.ch \in QuitKeys /\ cfg.quit_on_q)
         /\ \/ pc = "sleep"
            \/ pc = "finally" /\ exc \in {"curses.error", "Exception"} ) =>
           calls.desk_key = 1
    /\ getch.kind = "key" =>
           /\ calls.desk_key <= 1
           /\ calls.desk_click = 0
           /\ calls.child = << >>
           /\ calls.seen = << >>

C10_Witness ==
    /\ pc = "sleep"
    /\ getch.kind = "key" /\ getch.ch = "a"
    /\ calls.desk_key = 1
    /\ Len(windows) = 2 /\ windows[1].active /\ windows[2].active

\* the number of the iteration, among those with fg /= bg, that handles
\* (table[i], table[j]) in "for fg in table: for bg in table"
Rank(table, i, j) == (i - 1) * (Len(table) - 1) + (IF j < i THEN j ELSE j - 1)

\* the positions in CLRS of the pairs a session looks up: (white, dgray),
\* (dgray, cream), (white, black) and (red, red)
SessionLookups == { <<14, 2>>, <<2, 13>>, <<14, 6>>, <<3, 3>> }

\* C11: once registration is over, looking up a pair that was registered
\* returns the handle it was given at registration (the colour attribute of
\* its registration number), and looking up a pair that was not registered
\* (fg = bg, or beyond the budget) ends in KeyError and yields no handle: the
\* session ends with KeyError only at a failed lookup, the Desktop and every
\* attached child were initialised with a registered pair. Every pair of the
\* table is looked up right after registration, the pairs the session uses
\* in every later state.
C11_PairLookup ==
    /\ pidx = Len(clrs) * Len(clrs) =>
           \A ij \in IF pc = "on_init"
                     THEN (1..Len(clrs)) \X (1..Len(clrs))
                     ELSE SessionLookups :
               LET r == Lookup(PAIRS, clrs[ij[1]], clrs[ij[2]])
                   n == Rank(clrs, ij[1], ij[2])
               IN  IF ij[1] /= ij[2] /\ n <= COLOR_PAIRS - 1
                   THEN r = [outcome |-> "ok", handle |-> color_pair(n)]
                   ELSE r = [outcome |-> "KeyError"]
    /\ pc \in {"assemble", "redraw", "redraw_child", "poll", "dispatch",
               "click_child", "sleep"} => HasPair(PAIRS, "white", "dgray")
    /\ \A k \in 1..Len(windows) :
           windows[k].inited => HasPair(PAIRS, windows[k].fg, windows[k].bg)
    /\ (pc = "finally" /\ exc = "KeyError") =>
           \/ ~HasPair(PAIRS, "white", "dgray")
           \/ arg.subwin = "ok" /\ ~HasPair(PAIRS, arg.win.fg, arg.win.bg)
           \/ cfg.has_shadows /\ ~HasPair(PAIRS, "white", "black")

C11_Witness ==
    /\ pc = "finally" /\ exc = "KeyError"
    /\ arg.subwin = "ok" /\ arg.win.fg = "red" /\ arg.win.bg = "red"
    /\ Len(windows) = 1
    /\ Lookup(PAIRS, windows[1].fg, windows[1].bg) =
           [outcome |-> "ok", handle |-> color_pair(27)]

\* the call that may come right after call a in a redraw pass: the steps on
\* the Desktop, then for a child its hook, the logged error if there is one,
\* the shadow, the border, the queueing, then a later child or the commit
StepAfterHook(n) ==
    IF cfg.has_shadows THEN {Log("shadow", n)}
    ELSE IF windows[n].has_border THEN {Log("border", n)}
    ELSE {Log("queue", n)}

Follows(a, b) ==
    LET n == a[2] IN
    IF n = 0
    THEN CASE a[1] = "redraw" ->
                  b = (IF cfg.has_border THEN Log("border", 0) ELSE Log("queue", 0))
           [] a[1] = "border" -> b = Log("queue", 0)
           [] a[1] = "queue"  -> b = Log("commit", 0) \/ (b[1] = "redraw" /\ b[2] >= 1)
           [] OTHER -> FALSE
    ELSE CASE a[1] = "redraw"    -> b = Log("log_error", n) \/ b \in StepAfterHook(n)
           [] a[1] = "log_error" -> b \in StepAfterHook(n)
           [] a[1] = "shadow"    ->
                  b = (IF windows[n].has_border THEN Log("border", n) ELSE Log("queue", n))
           [] a[1] = "border"    -> b = Log("queue", n)
           [] a[1] = "queue"     -> b = Log("commit", 0) \/ (b[1] = "redraw" /\ b[2] > n)
           [] OTHER -> FALSE

\* C12: the calls of a redraw pass come in this order: the Desktop's redraw
\* hook, the root border if has_border, the queueing of the root; then for
\* each child drawn its redraw hook, its shadow if shadows are enabled, its
\* border if it has one, its queueing; a pass that reaches the poll has
\* committed exactly once, after every queueing, and has drawn every child
\* that still holds a surface.
C12_RedrawOrder ==
    /\ passLog /= << >> => passLog[1] = Log("redraw", 0)
    /\ \A k \in 1..(Len(passLog) - 1) : Follows(passLog[k], passLog[k + 1])
    /\ \A k \in 1..Len(passLog) :
           passLog[k][1] = "commit" =>
               /\ k = Len(passLog)
               /\ pc = "poll" \/ (pc = "finally" /\ exc = "KeyboardInterrupt")
    /\ pc = "poll" =>
           /\ passLog /= << >>
           /\ passLog[Len(passLog)] = Log("commit", 0)
           /\ \A j \in 1..Len(windows) :
                  windows[j].scr =>
                      /\ InLog("redraw", j)
                      /\ cfg.has_shadows => InLog("shadow", j)
                      /\ windows[j].has_border => InLog("border", j)
                      /\ InLog("queue", j)

C12_Witness ==
    /\ pc = "poll"
    /\ cfg.has_border /\ cfg.has_shadows
    /\ Len(windows) = 2 /\ windows[2].has_border
    /\ passLog = << Log("redraw", 0), Log("border", 0), Log("queue", 0),
                    Log("redraw", 1), Log("shadow", 1), Log("border", 1),
                    Log("queue", 1),
                    Log("redraw", 2), Log("log_error", 2), Log("shadow", 2),
                    Log("border", 2), Log("queue", 2),
                    Log("commit", 0) >>

\* C13: the shared z counter never decreases, every attach increases it by
\* exactly one, and of any two entries of the child list the one attached
\* later carries a strictly larger z index than the one attached earlier.
C13_ZOrder ==
    /\ [](\A i, j \in 1..Len(windows) : i < j => windows[i].z < windows[j].z)
    /\ [][ /\ z_top' >= z_top
           /\ Len(windows') > Len(windows) => z_top' = z_top + 1 ]_vars

\* C14: every entry of the child list has had its region created and its
\* init hook run by add_win, so no entry is in the Created state, and every
\* redraw hook, drawing call or click hook of a pass or a dispatch step is
\* invoked on a child that was initialised before.
C14_InitBeforeUse ==
    /\ \A k \in 1..Len(windows) :
           /\ windows[k].inited
           /\ windows[k].rh >= 1 /\ windows[k].rw >= 1
           /\ windows[k].z >= 1
    /\ \A k \in 1..Len(passLog) :
           passLog[k][2] >= 1 =>
               /\ passLog[k][2] <= Len(windows)
               /\ windows[passLog[k][2]].inited
    /\ \A k \in 1..Len(calls.child) :
           /\ calls.child[k] <= Len(windows)
           /\ windows[calls.child[k]].inited

C14_Witness ==
    /\ pc = "sleep"
    /\ getch.kind = "mouse"
    /\ calls.child = <<1, 2>>
    /\ Len(windows) = 2
    /\ windows[1].inited /\ windows[2].inited
    /\ windows[1].id /= windows[2].id

\* C15: a tick is one complete redraw pass, then one poll, then at most one
\* dispatched event, then the sleep: the poll is reached with the pass of the
\* same tick committed, the dispatch with the poll done, the sleep with one
\* pass, one poll and one dispatch exactly when the poll returned an event;
\* when the poll returns no event no click or key handler is invoked.
C15_TickShape ==
    /\ tick.polls <= tick.passes /\ tick.passes <= 1
    /\ tick.events <= tick.polls
    /\ pc = "redraw" => tick = NoTick
    /\ pc = "redraw_child" => tick = [passes |-> 1, polls |-> 0, events |-> 0]
    /\ pc = "poll" =>
           /\ tick = [passes |-> 1, polls |-> 0, events |-> 0]
           /\ InLog("commit", 0)
    /\ pc = "dispatch" =>
           /\ tick = [passes |-> 1, polls |-> 1, events |-> 0]
           /\ getch.kind /= "none"
           /\ calls = NoCalls
    /\ pc = "click_child" =>
           tick = [passes |-> 1, polls |-> 1, events |-> 1]
    /\ pc = "sleep" =>
           /\ tick.passes = 1 /\ tick.polls = 1
           /\ tick.events = (IF getch.kind = "none" THEN 0 ELSE 1)
    /\ getch.kind = "none" => calls = NoCalls

C15_Witness ==
    /\ pc = "sleep"
    /\ getch.kind = "none"
    /\ tick = [passes |-> 1, polls |-> 1, events |-> 0]
    /\ calls = NoCalls
    /\ Len(windows) = 2 /\ ~windows[1].scr /\ windows[2].active

\* C16: over any sequence of invocations of default hooks, an invocation
\* logs the warning exactly when it is the first one of that hook on that
\* widget, every later one logs nothing, a latch is set exactly when its own
\* hook of its own widget has been invoked, no other widget state changes
\* and no invocation raises.
C16_DefaultHookWarnsOnce ==
    /\ \A k \in 1..Len(hooklog) :
           hooklog[k].logged <=>
               ~\E j \in 1..(k - 1) :
                   /\ hooklog[j].widget = hooklog[k].widget
                   /\ hooklog[j].hook = hooklog[k].hook
    /\ \A w \in Widgets, h \in Hooks :
           warn[w][h] <=>
               \E k \in 1..Len(hooklog) :
                   hooklog[k].widget = w /\ hooklog[k].hook = h
    /\ exc = "none"
    /\ windows = <<HookChild>>
    /\ pc = "hooks"

C16_Witness ==
    /\ Len(hooklog) = 3
    /\ hooklog[1] = [widget |-> 1, hook |-> "on_redraw", logged |-> TRUE]
    /\ hooklog[2] = [widget |-> 0, hook |-> "on_redraw", logged |-> TRUE]
    /\ hooklog[3] = [widget |-> 1, hook |-> "on_redraw", logged |-> FALSE]
    /\ ~warn[1]["on_click"]

\* C17: whatever the sequence of attach, deactivate, reactivate, redraw
\* pass, click dispatch and move / reinit_all, no redraw hook, init hook,
\* shadow, border, queueing, move or click hook is invoked on a child that
\* holds no surface.
C17_NoCallWithoutSurface ==
    /\ [](calls.reinit = << >>)
    /\ [](\A k \in 1..Len(calls.seen) :
             calls.seen[k].invoked => calls.seen[k].scr)
    /\ [][ ( /\ pc = "redraw_child"
             /\ widx <= Len(windows)
             /\ Len(passLog') > Len(passLog) ) => windows[widx].scr ]_vars

\* C18: for every pair budget COLOR_PAIRS >= 1, once registration is over
\* the pairs the framework itself looks up, (white, dgray), (dgray, cream)
\* and (white, black), are in the table, and the initialisation of the
\* Desktop does not end in a failed pair lookup.
C18_FrameworkPairsRegistered ==
    /\ (COLOR_PAIRS >= 1 /\ pidx = Len(clrs) * Len(clrs)) =>
           /\ HasPair(PAIRS, "white", "dgray")
           /\ HasPair(PAIRS, "dgray", "cream")
           /\ HasPair(PAIRS, "white", "black")
    /\ ~(pc = "finally" /\ exc = "KeyError" /\ arg = NoArg /\ windows = << >>)

\* C19: a call of add_win with a window whose active flag is false changes
\* nothing: no surface is created, the init hook is not invoked and nothing
\* is raised, the z counter and the window's z index keep their values, and
\* the child list is unchanged.
C19_InactiveAddWinNoOp ==
    [][ (pc = "assemble" /\ arg' /= arg /\ ~arg'.win.active) =>
            /\ arg'.subwin = "none"
            /\ arg'.win \in Candidates(windows, cfg.win_border)
            /\ windows' = windows
            /\ z_top' = z_top
            /\ exc' = exc
            /\ pc' = pc ]_vars

C19_Witness ==
    /\ pc = "assemble"
    /\ arg.subwin = "none" /\ ~arg.win.active
    /\ ~arg.win.scr /\ ~arg.win.inited /\ arg.win.z = 0
    /\ Len(windows) = 1 /\ z_top = 1

=============================================================================
